---- MODULE Spec2Model ----
(***************************************************************************)
(* A model of resources/resources.py: the Resource adapters (Pickle, CSV,  *)
(* Shapefile, Bcolz) over a file system, and the memoizing decorator       *)
(* cache(r1, ..., rk) with path templates resolved from the call's         *)
(* arguments.                                                              *)
(***************************************************************************)
EXTENDS Integers, Sequences, FiniteSets, TLC

VARIABLES
    fn,         \* name of the decorated function of this run (orig_fn)
    resources,  \* the template Resource instances given to cache(...)
    fs,         \* file system: resolved path -> stored content
    dirs,       \* file system: the directories that exist
    pc,         \* per caller: position inside new_fn
    frame,      \* per caller: the locals of new_fn
    ret,        \* per caller: how the last decorated call ended
    oplog,      \* per caller: load / call / save operations of the current call
    origin,     \* history: path -> value handed to the last successful save, and by whom
    direct      \* last operation made directly on a Resource instance

vars == <<fn, resources, fs, dirs, pc, frame, ret, oplog, origin, direct>>

(* ------------------------------ bounds --------------------------------- *)

\* the argument mult ranges over 1..MaxMult
MaxMult == 2

(* --------------------------- Python values ----------------------------- *)

None == [py |-> "NoneType"]

PyInt(n) == [py |-> "int", v |-> n]

\* a pandas DataFrame: its row index (default or named), whether every column
\* name is a str that is an identifier, and its cells
DataFrame(index, columns, data) ==
    [py |-> "DataFrame", index |-> index, columns |-> columns, data |-> data]

Tuple(items) == [py |-> "tuple", items |-> items]

List(items) == [py |-> "list", items |-> items]

\* an object with attributes, such as the receiver of a decorated method
Object(attrs) == [py |-> "object", attrs |-> attrs]

Min(a, b) == IF a <= b THEN a ELSE b

\* str(value), as str.format applies it to a substituted value
Str(value) ==
    CASE value.py = "int" -> ToString(value.v)
      [] value.py = "NoneType" -> "None"
      [] OTHER -> "<" \o value.py \o ">"

(* ------------------------- paths and templates ------------------------- *)

\* A path is the sequence of its "/"-separated components ("" first: absolute).
\* A template path gives every component as a sequence of tokens: literal
\* text, or a replacement field {name} / {name.attr}.
Lit(text) == [kind |-> "lit", name |-> text, attr |-> ""]

Field(name) == [kind |-> "field", name |-> name, attr |-> ""]

AttrField(name, attr) == [kind |-> "field", name |-> name, attr |-> attr]

\* getattr for a replacement field {name.attr}; {name} is the value itself
FieldValue(tok, ctx) ==
    IF tok.name \notin DOMAIN ctx THEN [ok |-> FALSE, exc |-> "KeyError"]
    ELSE IF tok.attr = "" THEN [ok |-> TRUE, value |-> ctx[tok.name]]
    ELSE IF ctx[tok.name].py = "object" /\ tok.attr \in DOMAIN ctx[tok.name].attrs
         THEN [ok |-> TRUE, value |-> ctx[tok.name].attrs[tok.attr]]
    ELSE [ok |-> FALSE, exc |-> "AttributeError"]

\* str.format(**ctx) on one path component, left to right; the first field
\* that cannot be looked up raises
RECURSIVE FormatTokens(_, _)
FormatTokens(toks, ctx) ==
    IF toks = <<>> THEN [ok |-> TRUE, text |-> ""]
    ELSE LET tok == Head(toks)
             fv == FieldValue(tok, ctx)
         IN IF tok.kind = "field" /\ ~fv.ok THEN [ok |-> FALSE, exc |-> fv.exc]
            ELSE LET rest == FormatTokens(Tail(toks), ctx)
                     text == IF tok.kind = "lit" THEN tok.name ELSE Str(fv.value)
                 IN IF rest.ok THEN [ok |-> TRUE, text |-> text \o rest.text] ELSE rest

\* str(resource.path).format(**args_of_orig_fn) on a whole template path
RECURSIVE Format(_, _)
Format(tpl, ctx) ==
    IF tpl = <<>> THEN [ok |-> TRUE, path |-> <<>>]
    ELSE LET first == FormatTokens(Head(tpl), ctx)
         IN IF ~first.ok THEN first
            ELSE LET rest == Format(Tail(tpl), ctx)
                 IN IF rest.ok THEN [ok |-> TRUE, path |-> <<first.text>> \o rest.path]
                    ELSE rest

\* a path written out by hand, as a template of literal text only
Literal(path) == [c \in DOMAIN path |-> <<Lit(path[c])>>]

(* ------------------------------ Resource ------------------------------- *)

\* Resource.__init__(path, **kwargs); type is the class
Resource(type, path, kwargs) == [type |-> type, path |-> path, kwargs |-> kwargs]

NoKwargs == <<>>

Kwargs(name, value) == name :> value

\* os.path.dirname
Dirname(path) == IF path = <<>> THEN <<>> ELSE SubSeq(path, 1, Len(path) - 1)

\* os.path.exists
Exists(path, files, ds) == path \in ds \/ path \in DOMAIN files

\* os.makedirs(d): d and every missing ancestor
Makedirs(d, ds) == ds \cup {SubSeq(d, 1, n) : n \in 1..Len(d)}

\* _ensure_dir(f): creates the parent directory of f when it does not exist;
\* os.makedirs('') raises when f has no directory component
EnsureDir(path, files, ds) ==
    LET d == Dirname(path)
    IN IF Exists(d, files, ds) THEN [ok |-> TRUE, dirs |-> ds]
       ELSE IF d = <<>> THEN [ok |-> FALSE, exc |-> "FileNotFoundError", dirs |-> ds]
       ELSE IF \E n \in 1..Len(d) : SubSeq(d, 1, n) \in DOMAIN files
            THEN [ok |-> FALSE, exc |-> "NotADirectoryError", dirs |-> ds]
       ELSE [ok |-> TRUE, dirs |-> Makedirs(d, ds)]

\* what the encoder of each class keeps of a DataFrame: pickle keeps the object;
\* to_csv(index=False), to_file and ctable.fromdataframe write no row index
Encode(type, df) ==
    IF type = "Pickle" THEN df ELSE [df EXCEPT !.index = "default"]

\* the content a finished write leaves at the path; an interrupted write leaves
\* an opened, truncated file
Stored(r, df) == [fmt |-> r.type, kwargs |-> r.kwargs, value |-> Encode(r.type, df)]

Corrupt == [fmt |-> "corrupt", kwargs |-> NoKwargs, value |-> None]

\* the outcomes of the write itself (open, disk, permissions)
WriteOutcomes == {"written", "refused", "interrupted"}

Save_unchecked(r, df, files, ds, outcome) ==
    IF r.type # "Pickle" /\ df.py # "DataFrame"
    THEN [ok |-> FALSE, exc |-> "AttributeError", fs |-> files, dirs |-> ds]
    ELSE LET e == EnsureDir(r.path, files, ds)
         IN IF ~e.ok THEN [ok |-> FALSE, exc |-> e.exc, fs |-> files, dirs |-> ds]
            ELSE IF outcome = "refused" \/ r.path \in e.dirs
                 THEN [ok |-> FALSE, exc |-> "OSError", fs |-> files, dirs |-> e.dirs]
            ELSE IF outcome = "interrupted"
                 THEN [ok |-> FALSE, exc |-> "OSError",
                       fs |-> (r.path :> Corrupt) @@ files, dirs |-> e.dirs]
            ELSE [ok |-> TRUE, exc |-> "",
                  fs |-> (r.path :> Stored(r, df)) @@ files, dirs |-> e.dirs]

\* Pickle.save / CSV.save / Shapefile.save / Bcolz.save
Save(r, df, files, ds, outcome) ==
    IF r.type # "Pickle" /\ df.py # "DataFrame"
    THEN [ok |-> FALSE, exc |-> "AttributeError", fs |-> files, dirs |-> ds]
    ELSE IF r.type = "Bcolz" /\ df.columns # "ident"
    THEN [ok |-> FALSE, exc |-> "AssertionError", fs |-> files, dirs |-> ds]
    ELSE LET e == EnsureDir(r.path, files, ds)
         IN IF ~e.ok THEN [ok |-> FALSE, exc |-> e.exc, fs |-> files, dirs |-> ds]
            ELSE IF outcome = "refused" \/ r.path \in e.dirs
                 THEN [ok |-> FALSE, exc |-> "OSError", fs |-> files, dirs |-> e.dirs]
            ELSE IF outcome = "interrupted"
                 THEN [ok |-> FALSE, exc |-> "OSError",
                       fs |-> (r.path :> Corrupt) @@ files, dirs |-> e.dirs]
            ELSE [ok |-> TRUE, exc |-> "",
                  fs |-> (r.path :> Stored(r, df)) @@ files, dirs |-> e.dirs]

\* Pickle.load / CSV.load / Shapefile.load / Bcolz.load
Load(r, files) ==
    IF r.type = "Shapefile" THEN [ok |-> FALSE, exc |-> "NameError", value |-> None]
    ELSE IF r.path \notin DOMAIN files
         THEN [ok |-> FALSE, exc |-> "FileNotFoundError", value |-> None]
    ELSE IF files[r.path].fmt # r.type
         THEN [ok |-> FALSE, exc |-> "ParseError", value |-> None]
    ELSE IF r.type = "CSV" /\ files[r.path].kwargs # r.kwargs
         THEN [ok |-> TRUE, exc |-> "",
               value |-> DataFrame("default", "nonident", 0)]
    ELSE [ok |-> TRUE, exc |-> "", value |-> files[r.path].value]

(* ------------------------ the decorated functions ----------------------- *)

Types == {"Pickle", "CSV", "Shapefile", "Bcolz"}

\* the options each class is constructed with in this model (CSV as in
\* test_pandas_saves_csvresource_loads, the others without options)
KwargsOf(type) == IF type = "CSV" THEN Kwargs("sep", ";") ELSE NoKwargs

Fns == {"process_df", "Processor.process_df", "many"}

\* signature(orig_fn).parameters.keys()
Params(f) ==
    CASE f = "process_df" -> <<"df", "mult">>
      [] f = "Processor.process_df" -> <<"self", "df", "mult">>
      [] f = "many" -> <<"df", "mult">>

\* the path templates of the resources given to cache(...):
\*   process_df            '/tmp/t_{mult}'
\*   Processor.process_df  '/tmp/t_{mult}_{self._add}'
\*   many                  'data/{mult}/t1', 'data/t2'
Templates(f) ==
    CASE f = "process_df" ->
            << <<<<Lit("")>>, <<Lit("tmp")>>, <<Lit("t_"), Field("mult")>>>> >>
      [] f = "Processor.process_df" ->
            << <<<<Lit("")>>, <<Lit("tmp")>>,
                 <<Lit("t_"), Field("mult"), Lit("_"), AttrField("self", "_add")>>>> >>
      [] f = "many" ->
            << <<<<Lit("data")>>, <<Field("mult")>>, <<Lit("t1")>>>>,
               <<<<Lit("data")>>, <<Lit("t2")>>>> >>

\* the template instances given to cache, all of one class
Declared(f, type) ==
    [i \in DOMAIN Templates(f) |-> Resource(type, Templates(f)[i], KwargsOf(type))]

Dfs == {DataFrame("default", "ident", 1), DataFrame("named", "nonident", 2)}

Mults == {PyInt(m) : m \in 1..MaxMult}

Receivers == {Object("_add" :> PyInt(29))}

\* the calls made in this model: the leading parameters positionally and mult
\* positionally or not at all; process_df is also called with mult by keyword,
\* and is the one called on both tables, once with mult given both ways and
\* once without its table
CallInputs(f) ==
    LET plain == DataFrame("default", "ident", 1)
        lead == CASE f = "process_df" -> {<<d>> : d \in Dfs}
                  [] f = "Processor.process_df" -> {<<s, plain>> : s \in Receivers}
                  [] f = "many" -> {<<plain>>}
    IN {[args |-> l \o <<m>>, kwargs |-> NoKwargs] : l \in lead, m \in Mults}
       \cup {[args |-> l, kwargs |-> Kwargs("mult", m)] :
                 l \in IF f = "process_df" THEN lead ELSE {}, m \in Mults}
       \cup {[args |-> l, kwargs |-> NoKwargs] : l \in lead}
       \cup (IF f = "process_df"
             THEN {[args |-> <<plain, PyInt(1)>>, kwargs |-> Kwargs("mult", PyInt(2))],
                   [args |-> <<>>, kwargs |-> Kwargs("mult", PyInt(1))]}
             ELSE {})

BindingContext_positional(argnames, args, kwargs) ==
    LET n == Min(Len(argnames), Len(args))
        positional == [name \in {argnames[i] : i \in 1..n} |->
                          args[CHOOSE i \in 1..n : argnames[i] = name]]
    IN positional @@ kwargs

\* args_of_orig_fn: dict(zip(argnames[:len(args)], args)), then update(kwargs)
BindingContext(argnames, args, kwargs) ==
    LET n == Min(Len(argnames), Len(args))
        positional == [name \in {argnames[i] : i \in 1..n} |->
                          args[CHOOSE i \in 1..n : argnames[i] = name]]
    IN kwargs @@ positional

\* Python's own binding of orig_fn(*args, **kwargs) to the parameters
CallArgs(argnames, args, kwargs) ==
    LET names == {argnames[i] : i \in DOMAIN argnames}
        given == {argnames[i] : i \in 1..Min(Len(argnames), Len(args))}
    IN IF Len(args) > Len(argnames) \/ DOMAIN kwargs \cap given # {}
          \/ ~(DOMAIN kwargs \subseteq names) \/ given \cup DOMAIN kwargs # names
       THEN [ok |-> FALSE, exc |-> "TypeError"]
       ELSE [ok |-> TRUE, exc |-> "", vals |-> BindingContext(argnames, args, kwargs)]

Scale(df, m) == [df EXCEPT !.data = m * @]

Shift(df, a) == [df EXCEPT !.data = @ + a]

\* how a run of orig_fn may go: it returns its result, it raises, or (for a
\* function declared with several resources) it returns too short a tuple;
\* a call Python cannot bind to the parameters never runs it ("unbound")
Behaviours(f) ==
    IF f = "many" THEN {"returns", "raises", "short"} ELSE {"returns", "raises"}

\* orig_fn(*args, **kwargs)
OrigFn(f, args, kwargs, behaviour) ==
    LET b == CallArgs(Params(f), args, kwargs)
    IN IF ~b.ok THEN [ok |-> FALSE, exc |-> b.exc, value |-> None]
       ELSE IF behaviour = "raises" THEN [ok |-> FALSE, exc |-> "OrigFnError", value |-> None]
       ELSE [ok |-> TRUE, exc |-> "", value |->
               CASE f = "process_df" -> Scale(b.vals["df"], b.vals["mult"].v)
                 [] f = "Processor.process_df" ->
                       Shift(Scale(b.vals["df"], b.vals["mult"].v),
                             b.vals["self"].attrs["_add"].v)
                 [] f = "many" ->
                       IF behaviour = "short"
                       THEN Tuple(<<Scale(b.vals["df"], b.vals["mult"].v)>>)
                       ELSE Tuple(<<Scale(b.vals["df"], b.vals["mult"].v),
                                    Scale(b.vals["df"], 20 * b.vals["mult"].v)>>)]

(* ----------------------------- cache: new_fn ---------------------------- *)

\* type(resource)(path, **resource._kwargs) with the formatted path
Instantiate(resource, ctx) ==
    LET f == Format(resource.path, ctx)
    IN IF f.ok
       THEN [ok |-> TRUE, exc |-> "",
             resource |-> Resource(resource.type, f.path, resource.kwargs)]
       ELSE [ok |-> FALSE, exc |-> f.exc, resource |-> resource]

ExpandResources_inplace(rs, ctx) ==
    LET inst == [i \in DOMAIN rs |-> Instantiate(rs[i], ctx)]
        bad == {i \in DOMAIN rs : ~inst[i].ok}
    IN IF bad = {}
       THEN [ok |-> TRUE, exc |-> "",
             templates |-> [i \in DOMAIN rs |->
                              [rs[i] EXCEPT !.path = Literal(inst[i].resource.path)]],
             instances |-> [i \in DOMAIN rs |-> inst[i].resource]]
       ELSE [ok |-> FALSE, exc |-> "KeyError", templates |-> rs, instances |-> <<>>]

\* the loop over the declared resources: the new instances (resources_new),
\* and the declared instances as the loop leaves them
ExpandResources(rs, ctx) ==
    LET inst == [i \in DOMAIN rs |-> Instantiate(rs[i], ctx)]
        bad == {i \in DOMAIN rs : ~inst[i].ok}
    IN IF bad = {}
       THEN [ok |-> TRUE, exc |-> "", templates |-> rs,
             instances |-> [i \in DOMAIN rs |-> inst[i].resource]]
       ELSE [ok |-> FALSE, exc |-> inst[CHOOSE i \in bad : \A j \in bad : i <= j].exc,
             templates |-> rs, instances |-> <<>>]

\* if len(resources_new) == 1: results = [results]
Normalize(value, k) == IF k = 1 THEN List(<<value>>) ELSE value

AfterExpand_miss(e) == IF e.ok THEN "load" ELSE "invoke"

\* what leaves the loop over the declared resources: the loop is outside the
\* try statement, so a template that cannot be formatted raises out of new_fn
AfterExpand(e) == IF e.ok THEN "load" ELSE "raise"

Catches_OSError(exc) == exc \in {"FileNotFoundError", "OSError"}

\* the bare except clause around the loads catches every exception
Catches(exc) == TRUE

\* the arguments orig_fn is called with: orig_fn(*args, **kwargs)
CallWith(args, kwargs) == [args |-> args, kwargs |-> kwargs]

Evaluate_swallow(f, with, k, behaviour) ==
    LET out == OrigFn(f, with.args, with.kwargs, behaviour)
    IN IF out.ok THEN [ok |-> TRUE, exc |-> "", results |-> Normalize(out.value, k)]
       ELSE [ok |-> TRUE, exc |-> "", results |-> List([i \in 1..k |-> None])]

\* results = orig_fn(*args, **kwargs), then the wrapping of a single result;
\* nothing catches what orig_fn raises
Evaluate(f, with, k, behaviour) ==
    LET out == OrigFn(f, with.args, with.kwargs, behaviour)
    IN IF out.ok THEN [ok |-> TRUE, exc |-> "", results |-> Normalize(out.value, k)]
       ELSE [ok |-> FALSE, exc |-> out.exc, results |-> List(<<>>)]

Unwrap_never(results, k) == results

\* if len(resources_new) == 1: results = results[0]
Unwrap(results, k) == IF k = 1 THEN results.items[1] ELSE results

\* the number of pairs zip(results, resources_new) yields
ZipLen(results, k) == Min(Len(results.items), k)

ZipResult_reversed(results, i) == results.items[Len(results.items) + 1 - i]

\* the element zip pairs with the i-th resource
ZipResult(results, i) == results.items[i]

Returned(value, via) == [kind |-> "return", value |-> value, exc |-> "", via |-> via]

Raised(exc, via) == [kind |-> "raise", value |-> None, exc |-> exc, via |-> via]

NoReturn == [kind |-> "none", value |-> None, exc |-> "", via |-> ""]

Op(op, i, ok) == [op |-> op, i |-> i, ok |-> ok]

\* the arguments of a call, as what identifies it
Key(f) == [args |-> f.args, kwargs |-> f.kwargs]

Procs == {1, 2}

NoFrame == [args |-> <<>>, kwargs |-> NoKwargs, rnew |-> <<>>, results |-> List(<<>>),
            i |-> 0, after |-> "", called |-> None, behaviour |-> "", mine |-> {}]

NoDirect == [op |-> "none", id |-> 0, resource |-> Resource("Pickle", <<>>, NoKwargs),
             arg |-> None, ok |-> FALSE, exc |-> "", value |-> None]

\* the i-th element of the value the wrapped function returned
Element(results, i) == results.items[i]

\* the paths a call resolved
Paths(rnew) == {rnew[i].path : i \in DOMAIN rnew}

\* history: the paths an invocation of orig_fn has saved whose files still
\* hold what it saved, after the save s at the path of r, made by this
\* invocation (own) or by another
StillMine(mine, r, s, files, own) ==
    IF own /\ s.ok THEN mine \cup {r.path}
    ELSE IF ~s.ok /\ s.fs = files THEN mine
    ELSE mine \ {r.path}

\* history of the saves: a save that returned records at the path the value
\* it was meant to persist, who saved it, in a call on which paths, and which
\* paths hold values of the same invocation of orig_fn (mates); a save that
\* left a truncated file forgets the path
Remember(known, r, value, id, mine, paths, s, files) ==
    LET others == (DOMAIN known) \ {r.path}
        kept(q) == [known[q] EXCEPT !.mates = StillMine(@, r, s, files, q \in mine)]
    IN IF s.ok
       THEN (r.path :> [value |-> value, by |-> r, id |-> id, paths |-> paths,
                        mates |-> mine \cup {r.path}])
               @@ [q \in others |-> kept(q)]
       ELSE IF s.fs = files THEN known
       ELSE [q \in others |-> kept(q)]

\* nothing saved yet, no call made yet
Fresh ==
    /\ fs = <<>>
    /\ dirs = {<<"">>, <<"", "tmp">>}
    /\ pc = [p \in Procs |-> "idle"]
    /\ frame = [p \in Procs |-> NoFrame]
    /\ ret = [p \in Procs |-> NoReturn]
    /\ oplog = [p \in Procs |-> <<>>]
    /\ origin = <<>>
    /\ direct = NoDirect

Init ==
    /\ fn \in Fns
    /\ \E type \in Types : resources = Declared(fn, type)
    /\ Fresh

\* history: what the caller's previous call did when this call repeats its
\* arguments: it returned one value per declared resource, or orig_fn raised
After(p, inp) ==
    IF Key(frame[p]) # inp THEN ""
    ELSE IF ret[p].kind = "return" /\ Len(frame[p].results.items) = Len(frame[p].rnew)
         THEN "returned"
    ELSE IF ret[p].kind = "raise" /\ frame[p].behaviour = "raises" THEN "raised"
    ELSE ""

\* when caller p may enter new_fn: when it is in no call; under the calling
\* discipline "alone", only while no other caller is in a call either
MayCall(p, alone) ==
    /\ pc[p] = "idle"
    /\ alone => \A q \in Procs : pc[q] = "idle"

\* new_fn, lines 132-140: bind the arguments and expand the path templates;
\* a template that cannot be formatted raises out of new_fn
Call(p, inp, alone) ==
    /\ MayCall(p, alone)
    /\ LET ctx == BindingContext(Params(fn), inp.args, inp.kwargs)
           e == ExpandResources(resources, ctx)
       IN /\ resources' = e.templates
          /\ frame' = [frame EXCEPT ![p] =
                         [args |-> inp.args, kwargs |-> inp.kwargs, rnew |-> e.instances,
                          results |-> List(<<>>), i |-> 1, after |-> After(p, inp),
                          called |-> None, behaviour |-> "", mine |-> {}]]
          /\ pc' = [pc EXCEPT ![p] = IF AfterExpand(e) = "raise" THEN "idle"
                                     ELSE AfterExpand(e)]
          /\ ret' = [ret EXCEPT ![p] = IF AfterExpand(e) = "raise"
                                       THEN Raised(e.exc, "resolve") ELSE NoReturn]
    /\ oplog' = [oplog EXCEPT ![p] = <<>>]
    /\ UNCHANGED <<fn, fs, dirs, origin, direct>>

AfterLoad_refresh(l, i, k) ==
    IF ~l.ok THEN (IF Catches(l.exc) THEN "invoke" ELSE "raise")
    ELSE IF i < k THEN "load" ELSE "invoke"

AfterLoad_continue(l, i, k) ==
    IF i < k THEN "load" ELSE IF l.ok THEN "return" ELSE "invoke"

\* what follows r.load() for the i-th of k resources: a load that raises ends
\* the list comprehension and, caught, leads to the except branch
AfterLoad(l, i, k) ==
    IF ~l.ok THEN (IF Catches(l.exc) THEN "invoke" ELSE "raise")
    ELSE IF i < k THEN "load" ELSE "return"

\* new_fn, lines 144-146 and 160-163: load the next resource; after the last
\* one return what was loaded; a load that raises leads to the except branch
LoadStep(p) ==
    /\ pc[p] = "load"
    /\ LET f == frame[p]
           k == Len(f.rnew)
           l == Load(f.rnew[f.i], fs)
           results == List(Append(f.results.items, l.value))
           next == AfterLoad(l, f.i, k)
       IN /\ oplog' = [oplog EXCEPT ![p] = Append(@, Op("load", f.i, l.ok))]
          /\ IF next = "invoke"
             THEN /\ pc' = [pc EXCEPT ![p] = "invoke"]
                  /\ UNCHANGED <<frame, ret>>
             ELSE IF next = "raise"
             THEN /\ pc' = [pc EXCEPT ![p] = "idle"]
                  /\ ret' = [ret EXCEPT ![p] = Raised(l.exc, "load")]
                  /\ UNCHANGED frame
             ELSE IF next = "load"
             THEN /\ frame' = [frame EXCEPT ![p].results = results, ![p].i = f.i + 1]
                  /\ UNCHANGED <<pc, ret>>
             ELSE /\ frame' = [frame EXCEPT ![p].results = results]
                  /\ pc' = [pc EXCEPT ![p] = "idle"]
                  /\ ret' = [ret EXCEPT ![p] = Returned(Unwrap(results, k), "hit")]
    /\ UNCHANGED <<fn, resources, fs, dirs, origin, direct>>

\* new_fn, lines 150-154: in the except branch call orig_fn with the original
\* arguments; what it raises leaves new_fn
Invoke(p) ==
    /\ pc[p] = "invoke"
    /\ \E behaviour \in Behaviours(fn) :
         LET f == frame[p]
             k == Len(f.rnew)
             with == CallWith(f.args, f.kwargs)
             out == Evaluate(fn, with, k, behaviour)
         IN /\ oplog' = [oplog EXCEPT ![p] = Append(@, Op("call", 0, out.ok))]
            /\ frame' = [frame EXCEPT ![p].results = out.results, ![p].i = 1,
                                      ![p].called = with,
                                      ![p].behaviour = IF out.exc = "TypeError"
                                                       THEN "unbound" ELSE behaviour]
            /\ IF ~out.ok
               THEN /\ pc' = [pc EXCEPT ![p] = "idle"]
                    /\ ret' = [ret EXCEPT ![p] = Raised(out.exc, "compute")]
               ELSE IF ZipLen(out.results, k) = 0
               THEN /\ pc' = [pc EXCEPT ![p] = "idle"]
                    /\ ret' = [ret EXCEPT ![p] = Returned(Unwrap(out.results, k), "compute")]
               ELSE /\ pc' = [pc EXCEPT ![p] = "save"]
                    /\ UNCHANGED ret
    /\ UNCHANGED <<fn, resources, fs, dirs, origin, direct>>

AfterSave_continue(s, i, n) ==
    IF i < n THEN "save" ELSE IF s.ok THEN "return" ELSE "raise"

\* what follows r.save(result) for the i-th of n pairs: nothing encloses the
\* loop of saves, so a save that raises ends the loop and the call
AfterSave(s, i, n) ==
    IF ~s.ok THEN "raise" ELSE IF i < n THEN "save" ELSE "return"

\* new_fn, lines 155-163: save the next pair of zip(results, resources_new);
\* after the last pair return the results; a save that raises leaves new_fn
SaveStep(p) ==
    /\ pc[p] = "save"
    /\ \E outcome \in WriteOutcomes :
         LET f == frame[p]
             k == Len(f.rnew)
             r == f.rnew[f.i]
             value == ZipResult(f.results, f.i)
             s == Save(r, value, fs, dirs, outcome)
             next == AfterSave(s, f.i, ZipLen(f.results, k))
         IN /\ fs' = s.fs
            /\ dirs' = s.dirs
            /\ oplog' = [oplog EXCEPT ![p] = Append(@, Op("save", f.i, s.ok))]
            /\ origin' = Remember(origin, r, Element(f.results, f.i), p, f.mine,
                                  Paths(f.rnew), s, fs)
            /\ frame' = [c \in Procs |->
                           IF c # p
                           THEN [frame[c] EXCEPT !.mine = StillMine(@, r, s, fs, FALSE)]
                           ELSE IF next = "save"
                           THEN [f EXCEPT !.i = f.i + 1,
                                          !.mine = StillMine(@, r, s, fs, TRUE)]
                           ELSE [f EXCEPT !.mine = {}]]
            /\ IF next = "raise"
               THEN /\ pc' = [pc EXCEPT ![p] = "idle"]
                    /\ ret' = [ret EXCEPT ![p] = Raised(s.exc, "compute")]
               ELSE IF next = "save"
               THEN UNCHANGED <<pc, ret>>
               ELSE /\ pc' = [pc EXCEPT ![p] = "idle"]
                    /\ ret' = [ret EXCEPT ![p] = Returned(Unwrap(f.results, k), "compute")]
    /\ UNCHANGED <<fn, resources, direct>>

\* the decorated function called by one caller at a time
Next ==
    \/ \E inp \in CallInputs(fn) : Call(1, inp, TRUE)
    \/ LoadStep(1)
    \/ Invoke(1)
    \/ SaveStep(1)

Spec == Init /\ [][Next]_vars

(* ------------------- Resource instances used directly ------------------ *)

\* the paths of the instances constructed directly: '/tmp/tmpfile' as in the
\* tests, 'out/tmpfile' whose directory does not exist yet, and 'tmpfile',
\* a file name with no directory component
DirectPaths == {<<"", "tmp", "tmpfile">>, <<"out", "tmpfile">>, <<"tmpfile">>}

DirectDfs ==
    {DataFrame(index, columns, 1) : index \in {"default", "named"},
                                    columns \in {"ident", "nonident"}}

\* the two instances constructed for each class and path
InstanceIds == {1, 2}

\* resource.save(df) on an instance constructed as type(path, **kwargs)
ResourceSave(id, type, path, df) ==
    \E outcome \in WriteOutcomes :
      LET r == Resource(type, path, KwargsOf(type))
          s == Save(r, df, fs, dirs, outcome)
      IN /\ fs' = s.fs
         /\ dirs' = s.dirs
         /\ origin' = Remember(origin, r, df, id, {}, {path}, s, fs)
         /\ direct' = [op |-> "save", id |-> id, resource |-> r, arg |-> df,
                       ok |-> s.ok, exc |-> s.exc, value |-> None]
         /\ UNCHANGED <<fn, resources, pc, frame, ret, oplog>>

\* resource.load() on an instance constructed as type(path, **kwargs)
ResourceLoad(id, type, path) ==
    LET r == Resource(type, path, KwargsOf(type))
        l == Load(r, fs)
    IN /\ direct' = [op |-> "load", id |-> id, resource |-> r, arg |-> None,
                     ok |-> l.ok, exc |-> l.exc, value |-> l.value]
       /\ UNCHANGED <<fn, resources, fs, dirs, pc, frame, ret, oplog, origin>>

InitResource ==
    /\ fn = "process_df"
    /\ \E type \in Types : resources = Declared(fn, type)
    /\ Fresh

\* the class under test is the one chosen initially
NextResource ==
    \E id \in InstanceIds, path \in DirectPaths :
        \/ \E df \in DirectDfs : ResourceSave(id, resources[1].type, path, df)
        \/ ResourceLoad(id, resources[1].type, path)

\* Resource instances saved to and loaded from directly, as the tests do
SpecResource == InitResource /\ [][NextResource]_vars

(* ------------------------------ properties ------------------------------ *)

\* the completed or running call of caller p went, or is going, through the
\* wrapped function
Invoked(p) == \E m \in DOMAIN oplog[p] : oplog[p][m].op = "call"

\* the operations of kind op the call of caller p has made successfully
Done(p, op) == {oplog[p][m].i : m \in {n \in DOMAIN oplog[p] :
                                        oplog[p][n].op = op /\ oplog[p][n].ok}}

\* the elements of what a decorated call returned, one per declared resource
Elements(p) ==
    IF Len(frame[p].rnew) = 1 THEN <<ret[p].value>> ELSE ret[p].value.items

\* a value the class writes and reads back unchanged: every class but Pickle
\* writes no row index
RoundTrips(r, value) == r.type = "Pickle" \/ value.index = "default"

\* the path written out by hand for the i-th resource of f, as the tests do
\* (tmpfile + '_{}'.format(mult), tmpfile + '_%s_%s' % (mult, add))
HandPath(f, i, vals) ==
    CASE f = "process_df" -> <<"", "tmp", "t_" \o ToString(vals["mult"].v)>>
      [] f = "Processor.process_df" ->
            <<"", "tmp", "t_" \o ToString(vals["mult"].v) \o "_"
                              \o ToString(vals["self"].attrs["_add"].v)>>
      [] f = "many" ->
            IF i = 1 THEN <<"data", ToString(vals["mult"].v), "t1">> ELSE <<"data", "t2">>

\* C1: a call that repeats the arguments of the caller's previous call, which
\* returned normally with one value per declared resource and whose saves all
\* succeeded, returns without invoking the wrapped function (nothing else wrote
\* to the file system in between: one caller at a time).
C1_RepeatedCallDoesNotInvoke ==
    \A p \in Procs :
        frame[p].after = "returned" => pc[p] \notin {"invoke", "save"} /\ ~Invoked(p)

\* C2: what a cache-hit call returns equals, element by element, the value the
\* wrapped function returned in the compute-path call that saved last at the
\* resolved path, for the values that round-trip through the class.
C2_HitReturnsWhatWasComputed ==
    \A p \in Procs :
        ret[p].kind = "return" /\ ret[p].via = "hit" =>
            /\ Len(Elements(p)) = Len(frame[p].rnew)
            /\ \A i \in DOMAIN frame[p].rnew :
                 LET r == frame[p].rnew[i]
                 IN /\ r.path \in DOMAIN origin
                    /\ RoundTrips(r, origin[r.path].value)
                          => Elements(p)[i] = origin[r.path].value

\* witness of C2: a cache hit on two declared resources whose values were
\* saved by calls with different arguments
C2_Witness ==
    /\ ret[1].kind = "return" /\ ret[1].via = "hit"
    /\ Len(frame[1].rnew) = 2
    /\ ret[1].value.items[2].data # 20 * ret[1].value.items[1].data

\* C3: after a compute-path call returned, every resource was resolved to the
\* path with the actual argument values substituted, a separately constructed
\* resource with that path loads the data that was computed and saved there,
\* and calls whose substituted values differ resolve to different paths.
C3_PathTemplating ==
    /\ \A p \in Procs :
         ret[p].kind = "return" /\ ret[p].via = "compute" =>
            LET vals == CallArgs(Params(fn), frame[p].args, frame[p].kwargs).vals
            IN \A i \in 1..ZipLen(frame[p].results, Len(frame[p].rnew)) :
                 LET hand == Resource(resources[i].type, HandPath(fn, i, vals),
                                      resources[i].kwargs)
                     value == frame[p].results.items[i]
                 IN /\ frame[p].rnew[i].path = hand.path
                    /\ Load(hand, fs).ok
                    /\ RoundTrips(hand, value) => Load(hand, fs).value = value
    /\ \A a, b \in CallInputs(fn) :
         LET ca == BindingContext(Params(fn), a.args, a.kwargs)
             cb == BindingContext(Params(fn), b.args, b.kwargs)
             ea == ExpandResources(resources, ca)
             eb == ExpandResources(resources, cb)
         IN ea.ok /\ eb.ok /\ ca["mult"] # cb["mult"]
               => ea.instances[1].path # eb.instances[1].path

\* C4: the template instances given to cache are never changed, and every
\* call works on instances of the same class and options.
C4_TemplatesNeverMutated ==
    /\ \E type \in Types : resources = Declared(fn, type)
    /\ \A p \in Procs : \A i \in DOMAIN frame[p].rnew :
         /\ Len(frame[p].rnew) = Len(resources)
         /\ frame[p].rnew[i].type = resources[i].type
         /\ frame[p].rnew[i].kwargs = resources[i].kwargs

\* witness of C4: a call has raised after earlier calls saved
C4_Witness ==
    /\ ret[1].kind = "raise" /\ ret[1].via = "compute"
    /\ DOMAIN fs # {}

\* C5: when the compute path returns a k-tuple, element i was saved to
\* resource i, so that loading the k resolved resources yields the tuple
\* element by element.
C5_FanOut ==
    \A p \in Procs :
        /\ ret[p].kind = "return" /\ ret[p].via = "compute"
        /\ Len(frame[p].results.items) = Len(frame[p].rnew)
        => \A i \in DOMAIN frame[p].rnew :
             LET r == frame[p].rnew[i]
                 value == frame[p].results.items[i]
             IN /\ Load(r, fs).ok
                /\ RoundTrips(r, value) => Load(r, fs).value = value

\* C6: with one declared resource the decorated call returns the bare value:
\* on the compute path the value the wrapped function returned, which is also
\* the value that was saved; on the cache-hit path the loaded value.
C6_SingleResourceUnwrap ==
    \A p \in Procs :
        Len(frame[p].rnew) = 1 /\ ret[p].kind = "return" =>
            LET r == frame[p].rnew[1]
            IN /\ ret[p].value.py \notin {"list", "tuple"}
               /\ ret[p].via = "compute" =>
                     /\ ret[p].value =
                           OrigFn(fn, frame[p].args, frame[p].kwargs, "returns").value
                     /\ r.path \in DOMAIN fs /\ fs[r.path] = Stored(r, ret[p].value)
               /\ ret[p].via = "hit" => ret[p].value = Load(r, fs).value

\* witness of C6: a cache hit on a single declared resource
C6_Witness ==
    /\ Len(frame[1].rnew) = 1
    /\ ret[1].kind = "return" /\ ret[1].via = "hit"

\* C7: a load that raises never reaches the caller: the wrapped function is
\* invoked with the original positional and keyword arguments, and when it
\* returned one value per declared resource and the call returned, every
\* declared resource was saved with the new result, those that had loaded too.
C7_LoadFailureIsCacheMiss ==
    \A p \in Procs :
        (\E m \in DOMAIN oplog[p] : oplog[p][m].op = "load" /\ ~oplog[p][m].ok) =>
            /\ ret[p].via # "load"
            /\ \/ pc[p] = "invoke"
               \/ Invoked(p) /\ frame[p].called = Key(frame[p])
            /\ ret[p].kind = "return" /\ Len(frame[p].results.items) = Len(frame[p].rnew)
                  => /\ Done(p, "save") = DOMAIN frame[p].rnew
                     /\ \A i \in DOMAIN frame[p].rnew :
                          LET r == frame[p].rnew[i]
                          IN r.path \in DOMAIN fs
                             /\ fs[r.path] = Stored(r, frame[p].results.items[i])

\* witness of C7: the first resource loaded, the second did not, and the call
\* returned after saving both
C7_Witness ==
    /\ Len(oplog[1]) = 5
    /\ oplog[1][1] = Op("load", 1, TRUE)
    /\ oplog[1][2] = Op("load", 2, FALSE)
    /\ ret[1].kind = "return" /\ ret[1].via = "compute"
    /\ Done(1, "save") = {1, 2}

\* the path templates of the call of caller p cannot all be formatted
Unresolvable(p) ==
    /\ frame[p].i >= 1
    /\ ~ExpandResources(resources,
                        BindingContext(Params(fn), frame[p].args, frame[p].kwargs)).ok

\* C8: a call whose path template names something absent from the binding
\* context raises at once: it loads nothing, does not invoke the wrapped
\* function and saves nothing.
C8_TemplateErrorIsFatal ==
    \A p \in Procs :
        Unresolvable(p) =>
            /\ pc[p] = "idle"
            /\ ret[p] = Raised("KeyError", "resolve")
            /\ oplog[p] = <<>>

\* witness of C8: a call raised on its template while the cache holds data
C8_Witness ==
    /\ Unresolvable(1)
    /\ ret[1].kind = "raise"
    /\ DOMAIN fs # {}

\* every resolved resource loads
AllLoadable(rnew, files) == \A i \in DOMAIN rnew : Load(rnew[i], files).ok

\* C9: when the wrapped function raises, the exception leaves the decorated
\* call, which has saved nothing, so the cache still misses; a following call
\* with the same arguments invokes the wrapped function again.
C9_TransparentToExceptions ==
    \A p \in Procs :
        /\ frame[p].behaviour = "raises" =>
              /\ pc[p] = "idle"
              /\ ret[p] = Raised("OrigFnError", "compute")
              /\ \A m \in DOMAIN oplog[p] : oplog[p][m].op # "save"
              /\ ~AllLoadable(frame[p].rnew, fs)
        /\ frame[p].after = "raised" /\ pc[p] = "idle" => Invoked(p)

\* witness of C9: the call after one in which the wrapped function raised has
\* invoked it again
C9_Witness ==
    /\ frame[1].after = "raised"
    /\ pc[1] = "idle"
    /\ Invoked(1)

\* C10: after save(v) of a table with a default row index that the class
\* accepted, load() on the same instance or on another instance constructed
\* with the same path and options returns a value equal to v.
C10_RoundTrip ==
    direct.op = "load" /\ direct.resource.path \in DOMAIN origin =>
        LET saved == origin[direct.resource.path]
        IN saved.by = direct.resource /\ saved.value.index = "default"
              => direct.ok /\ direct.value = saved.value

\* the class chosen for this run has a load that works
Loads == resources[1].type # "Shapefile"

\* C1, C3, C5 and C10 hold of the classes whose load works (Pickle, CSV, Bcolz)
C1_OtherClasses == Loads => C1_RepeatedCallDoesNotInvoke

C3_OtherClasses == Loads => C3_PathTemplating

C5_OtherClasses == Loads => C5_FanOut

C10_OtherClasses == Loads => C10_RoundTrip

\* a table saved by one instance was loaded by the other
C10_OtherClassesWitness ==
    /\ Loads
    /\ direct.op = "load" /\ direct.ok
    /\ direct.resource.path \in DOMAIN origin
    /\ origin[direct.resource.path].id # direct.id

\* the exceptions _ensure_dir raises
PathErrors == {"FileNotFoundError", "NotADirectoryError"}

\* C11: save on a path whose parent directories exist, are missing, or which
\* has no directory component raises no path-related error; when the write
\* went through, the parent directory exists, the value is stored at the path
\* and a following load there returns it.
C11_SaveCreatesParents ==
    direct.op = "save" =>
        LET r == direct.resource
        IN /\ direct.exc \notin PathErrors
           /\ direct.ok =>
                 /\ Exists(Dirname(r.path), fs, dirs) \/ Dirname(r.path) = <<>>
                 /\ r.path \in DOMAIN fs /\ fs[r.path] = Stored(r, direct.arg)
                 /\ Load(r, fs).ok
                 /\ RoundTrips(r, direct.arg) => Load(r, fs).value = direct.arg

\* C11 holds of the paths that have a directory component, for the classes
\* whose load works
C11_WithDirectory ==
    Loads /\ Dirname(direct.resource.path) # <<>> => C11_SaveCreatesParents

\* a save created the missing directory 'out' and wrote the file
C11_WithDirectoryWitness ==
    /\ Loads
    /\ direct.op = "save" /\ direct.ok
    /\ direct.resource.path = <<"out", "tmpfile">>
    /\ <<"out">> \in dirs

\* a save on a bare file name raised out of _ensure_dir
C11_BareNameRaises ==
    /\ direct.op = "save"
    /\ direct.resource.path = <<"tmpfile">>
    /\ direct.exc = "FileNotFoundError"

\* the save the call of caller p is about to make is a Bcolz.save of a table
\* with a column name that is not an identifier
SavesBadColumns(p) ==
    /\ pc[p] = "save"
    /\ frame[p].rnew[frame[p].i].type = "Bcolz"
    /\ ZipResult(frame[p].results, frame[p].i).columns # "ident"

\* C12: Bcolz.save of a table with a column name that is not an identifier
\* raises AssertionError and leaves every file and directory as it was; in the
\* compute path of a decorated call the AssertionError reaches the caller.
C12_BcolzValidation ==
    [][\A p \in Procs :
         SavesBadColumns(p) =>
            /\ fs' = fs /\ dirs' = dirs
            /\ pc'[p] = "idle"
            /\ ret'[p] = Raised("AssertionError", "compute")]_vars

\* witness of C12: the call ended with the AssertionError while the cache
\* holds a table saved earlier
C12_Witness ==
    /\ ret[1] = Raised("AssertionError", "compute")
    /\ DOMAIN fs # {}

\* C12 on an instance used directly: a Bcolz.save of such a table raises
\* AssertionError and leaves every file and directory as it was
C12_DirectSave ==
    [][/\ direct'.op = "save"
       /\ direct'.resource.type = "Bcolz"
       /\ direct'.arg.columns # "ident"
       => /\ direct'.exc = "AssertionError"
          /\ fs' = fs /\ dirs' = dirs]_vars

\* the refused save named a path whose directory is missing
C12_DirectSaveWitness ==
    /\ direct.op = "save" /\ direct.exc = "AssertionError"
    /\ direct.resource.path = <<"out", "tmpfile">>
    /\ <<"out">> \notin dirs

\* the argument names the path templates of f refer to
Referenced(f) ==
    UNION {UNION {{tpl[c][t].name : t \in {u \in DOMAIN tpl[c] : tpl[c][u].kind = "field"}} :
                     c \in DOMAIN tpl} :
              tpl \in {Templates(f)[i] : i \in DOMAIN Templates(f)}}

\* the positions of the call of caller p that carry a positional argument and
\* a declared parameter name
Positions(p) == 1..Min(Len(Params(fn)), Len(frame[p].args))

\* the names the call of caller p gave a value to, and the value each has:
\* the keyword argument of that name, else the positional argument at the
\* place of that name among the declared parameters
Supplied(p) == DOMAIN frame[p].kwargs \cup {Params(fn)[i] : i \in Positions(p)}

ValueOf(p, name) ==
    IF name \in DOMAIN frame[p].kwargs THEN frame[p].kwargs[name]
    ELSE frame[p].args[CHOOSE i \in Positions(p) : Params(fn)[i] = name]

\* C13: a call is resolved exactly when every name the templates refer to was
\* supplied, positionally or by keyword, whatever else is missing; its paths
\* are the templates with each name replaced by the keyword argument of that
\* name, else by the positional argument at the parameter's place, so the same
\* value given either way resolves to the same path.
C13_BindingContext ==
    \A p \in Procs :
        frame[p].i >= 1 =>
            LET resolved == ~(ret[p].kind = "raise" /\ ret[p].via = "resolve")
                vals == [name \in Supplied(p) |-> ValueOf(p, name)]
            IN /\ resolved <=> Referenced(fn) \subseteq Supplied(p)
               /\ resolved =>
                     /\ Len(frame[p].rnew) = Len(resources)
                     /\ \A i \in DOMAIN frame[p].rnew :
                          frame[p].rnew[i].path = HandPath(fn, i, vals)

\* witness of C13: a call that gave mult positionally and, with another value,
\* by keyword was served from the path of the keyword value
C13_Witness ==
    /\ Len(frame[1].args) = 2
    /\ "mult" \in DOMAIN frame[1].kwargs
    /\ frame[1].kwargs["mult"] # frame[1].args[2]
    /\ ret[1].kind = "return" /\ ret[1].via = "hit"

\* a call that did not supply the parameter df was resolved and found no cache
C13_MissingUnreferenced ==
    /\ frame[1].args = <<>>
    /\ frame[1].i >= 1
    /\ ret[1] = Raised("TypeError", "compute")

\* the places in the log of caller p of the saves that raised
FailedSaves(p) == {m \in DOMAIN oplog[p] : oplog[p][m].op = "save" /\ ~oplog[p][m].ok}

\* C14: when the save of the i-th resource raises in the compute path, the
\* call ends with that exception instead of the computed value, no save of a
\* later resource is attempted, and the resources before i hold the new values.
C14_SaveErrorNoRollback ==
    \A p \in Procs : \A m \in FailedSaves(p) :
        LET i == oplog[p][m].i
        IN /\ pc[p] = "idle"
           /\ ret[p].kind = "raise" /\ ret[p].via = "compute"
           /\ m = Len(oplog[p])
           /\ \A j \in 1..(i - 1) :
                LET r == frame[p].rnew[j]
                IN /\ Op("save", j, TRUE) \in {oplog[p][n] : n \in DOMAIN oplog[p]}
                   /\ r.path \in DOMAIN fs
                   /\ fs[r.path] = Stored(r, frame[p].results.items[j])

\* witness of C14: the save of the second of two resources raised after the
\* first was written
C14_Witness ==
    /\ FailedSaves(1) # {}
    /\ oplog[1][Len(oplog[1])] = Op("save", 2, FALSE)
    /\ ret[1].kind = "raise"
    /\ frame[1].rnew[1].path \in DOMAIN fs

\* the call inp and the call of caller p are both well-formed calls, give the
\* same value to every name the templates refer to, and differ in the table df,
\* which no template mentions
DiffersOnlyInDf(p, inp) ==
    LET a == CallArgs(Params(fn), inp.args, inp.kwargs)
        b == CallArgs(Params(fn), frame[p].args, frame[p].kwargs)
    IN /\ frame[p].i >= 1
       /\ a.ok /\ b.ok
       /\ \A name \in Referenced(fn) : a.vals[name] = b.vals[name]
       /\ a.vals["df"] # b.vals["df"]

\* the cache at the paths of the call of caller p was populated by a call
\* with the arguments inp: each path holds what orig_fn returns for inp
PopulatedBy(p, inp) ==
    LET k == Len(frame[p].rnew)
        computed == Normalize(OrigFn(fn, inp.args, inp.kwargs, "returns").value, k)
    IN \A i \in DOMAIN frame[p].rnew :
         /\ frame[p].rnew[i].path \in DOMAIN origin
         /\ origin[frame[p].rnew[i].path].value = computed.items[i]

\* C15: a call that differs from the call that populated the cache only in an
\* argument the template does not mention resolves to the same path and is a
\* cache hit: it does not invoke the wrapped function and returns the value
\* computed for the other call's arguments.
C15_StaleHit ==
    \A p \in Procs : \A inp \in CallInputs(fn) :
        DiffersOnlyInDf(p, inp) /\ PopulatedBy(p, inp) =>
            LET k == Len(frame[p].rnew)
                computed == Normalize(OrigFn(fn, inp.args, inp.kwargs, "returns").value, k)
            IN /\ pc[p] \in {"load", "idle"}
               /\ ~Invoked(p)
               /\ pc[p] = "idle" =>
                     /\ ret[p].kind = "return" /\ ret[p].via = "hit"
                     /\ \A i \in DOMAIN frame[p].rnew :
                          RoundTrips(frame[p].rnew[i], computed.items[i])
                             => Elements(p)[i] = computed.items[i]

\* C15 holds of the classes whose load works
C15_OtherClasses == Loads => C15_StaleHit

\* a call on one table returned, as a hit, what was computed from another
C15_OtherClassesWitness ==
    /\ Loads
    /\ ret[1].kind = "return" /\ ret[1].via = "hit"
    /\ \E inp \in CallInputs(fn) :
         /\ DiffersOnlyInDf(1, inp) /\ PopulatedBy(1, inp)
         /\ ret[1].value = OrigFn(fn, inp.args, inp.kwargs, "returns").value
         /\ ret[1].value # OrigFn(fn, frame[1].args, frame[1].kwargs, "returns").value

\* the places in the log of caller p of the operations of kind op
Places(p, op) == {m \in DOMAIN oplog[p] : oplog[p][m].op = op}

\* C16: in the log of every call, the loads come first, the m-th being the
\* load of the m-th declared resource, and none follows a load that failed;
\* the wrapped function is called at most once, right after a failed load;
\* every save comes after the call of the wrapped function, which returned,
\* the n-th save after it being the save of the n-th declared resource; so no
\* load follows a save.
C16_OperationOrder ==
    \A p \in Procs :
        LET log == oplog[p]
            k == Len(frame[p].rnew)
        IN /\ \A m \in Places(p, "load") :
                /\ log[m].i = m /\ m <= k
                /\ m > 1 => log[m - 1] = Op("load", m - 1, TRUE)
           /\ Cardinality(Places(p, "call")) <= 1
           /\ \A m \in Places(p, "call") :
                m > 1 /\ log[m - 1].op = "load" /\ ~log[m - 1].ok
           /\ \A m \in Places(p, "save") :
                \E c \in Places(p, "call") :
                    /\ c < m /\ log[c].ok
                    /\ log[m].i = m - c /\ log[m].i <= k
           /\ \A m \in Places(p, "load"), n \in Places(p, "save") : m < n

\* witness of C16: a call loaded the first resource, failed to load the
\* second, called the wrapped function, saved the first and failed to save
\* the second
C16_Witness ==
    oplog[1] = <<Op("load", 1, TRUE), Op("load", 2, FALSE), Op("call", 0, TRUE),
                 Op("save", 1, TRUE), Op("save", 2, FALSE)>>

(* --------------------------- concurrent callers ------------------------- *)

Exclusive_lock == TRUE

\* new_fn takes no lock and keeps no record of the calls in progress: a call
\* may start while other calls are running
Exclusive == FALSE

\* the calls the concurrent callers make: process_df on one table
ConcurrentInputs ==
    {[args |-> <<DataFrame("default", "ident", 1), m>>, kwargs |-> NoKwargs] : m \in Mults}

InitConcurrent ==
    /\ fn = "process_df"
    /\ resources = Declared(fn, "Pickle")
    /\ Fresh

NextConcurrent ==
    \E p \in Procs :
        \/ \E inp \in ConcurrentInputs : Call(p, inp, Exclusive)
        \/ LoadStep(p)
        \/ Invoke(p)
        \/ SaveStep(p)

\* the decorated function called by two callers whose steps interleave
SpecConcurrent == InitConcurrent /\ [][NextConcurrent]_vars

\* the calls of callers p and q resolved to the same path, and each found
\* nothing to load there
BothMissed(p, q) ==
    /\ p # q
    /\ frame[p].rnew # <<>> /\ frame[q].rnew # <<>>
    /\ frame[p].rnew[1].path = frame[q].rnew[1].path
    /\ oplog[p] # <<>> /\ oplog[p][1] = Op("load", 1, FALSE)
    /\ oplog[q] # <<>> /\ oplog[q][1] = Op("load", 1, FALSE)

\* C17: nothing keeps a caller from starting a call while another call is
\* running; and when two callers resolved the same path, both found nothing to
\* load and both calls returned, then both invoked the wrapped function, both
\* saved, and the path holds what the later of the two saves wrote.
C17_NoMutualExclusion ==
    /\ \A p \in Procs :
         pc[p] = "idle" => MayCall(p, Exclusive)
    /\ \A p, q \in Procs :
         /\ BothMissed(p, q)
         /\ pc[p] = "idle" /\ ret[p].kind = "return"
         /\ pc[q] = "idle" /\ ret[q].kind = "return"
         => LET path == frame[p].rnew[1].path
            IN /\ Invoked(p) /\ Invoked(q)
               /\ Done(p, "save") = {1} /\ Done(q, "save") = {1}
               /\ path \in DOMAIN origin /\ path \in DOMAIN fs
               /\ fs[path] = Stored(frame[p].rnew[1],
                                    frame[origin[path].id].results.items[1])

\* witness of C17: both callers missed on the same path with an empty cache,
\* both invoked the wrapped function and both saved, caller 2 after caller 1
C17_Witness ==
    /\ BothMissed(1, 2)
    /\ oplog[1] = <<Op("load", 1, FALSE), Op("call", 0, TRUE), Op("save", 1, TRUE)>>
    /\ oplog[2] = oplog[1]
    /\ ret[1].via = "compute" /\ ret[2].via = "compute"
    /\ origin[frame[1].rnew[1].path].id = 2

\* C18: when a decorated call returns through the compute path, every one of
\* its resolved resources has been saved by that call and they all load, so
\* the following call with the same arguments is a cache hit.
C18_ReturnMeansAllSaved ==
    \A p \in Procs :
        ret[p].kind = "return" /\ ret[p].via = "compute" =>
            /\ Done(p, "save") = DOMAIN frame[p].rnew
            /\ AllLoadable(frame[p].rnew, fs)

\* C18 holds when the wrapped function returned at least one element per
\* declared resource, for the classes whose load works
C18_FullArity ==
    \A p \in Procs :
        Loads /\ Len(frame[p].results.items) >= Len(frame[p].rnew)
            => (ret[p].kind = "return" /\ ret[p].via = "compute" =>
                   /\ Done(p, "save") = DOMAIN frame[p].rnew
                   /\ AllLoadable(frame[p].rnew, fs))

\* a call on two resources returned through the compute path after saving both
C18_FullArityWitness ==
    /\ Loads
    /\ Len(frame[1].rnew) = 2
    /\ ret[1].kind = "return" /\ ret[1].via = "compute"
    /\ Done(1, "save") = {1, 2}

\* the wrapped function returned one element for two declared resources: the
\* call saved the first resource only and returned normally
C18_ShortTupleReturns ==
    /\ Loads
    /\ Len(frame[1].rnew) = 2
    /\ ret[1].kind = "return" /\ ret[1].via = "compute"
    /\ Done(1, "save") = {1}
    /\ ~AllLoadable(frame[1].rnew, fs)

\* the files at the paths rnew all hold values of one invocation of orig_fn
SameInvocation(rnew) ==
    \A i \in DOMAIN rnew :
        /\ rnew[i].path \in DOMAIN origin
        /\ Paths(rnew) \subseteq origin[rnew[i].path].mates

C19_MixedHit ==
    /\ ret[1].kind = "return" /\ ret[1].via = "hit"
    /\ Len(frame[1].rnew) = 2
    /\ ~SameInvocation(frame[1].rnew)

\* every path the call of caller p resolved was last saved by a call that
\* resolved the same paths
SavedByCallsOnSamePaths(p) ==
    \A i \in DOMAIN frame[p].rnew :
        /\ frame[p].rnew[i].path \in DOMAIN origin
        /\ origin[frame[p].rnew[i].path].paths = Paths(frame[p].rnew)

Ancestors(path) == {SubSeq(path, 1, n) : n \in 1..(Len(path) - 1)}

\* C20: a step that changes the file system is a save of a call that is not a
\* cache hit, at a resolved path of that call: every file at another path is
\* left as it was, no directory disappears, and the directories that appear
\* are parents of the saved path; a call all of whose loads succeeded changes
\* nothing.
C20_Frame ==
    [][fs' # fs \/ dirs' # dirs =>
         \E p \in Procs :
            /\ pc[p] = "save"
            /\ Len(oplog'[p]) = Len(oplog[p]) + 1
            /\ Done(p, "load") # DOMAIN frame[p].rnew
            /\ LET r == frame[p].rnew[frame[p].i]
               IN /\ r.path \in Paths(frame'[p].rnew)
                  /\ \A q \in (DOMAIN fs \cup DOMAIN fs') \ {r.path} :
                       q \in DOMAIN fs /\ q \in DOMAIN fs' /\ fs'[q] = fs[q]
                  /\ dirs \subseteq dirs'
                  /\ dirs' \ dirs \subseteq Ancestors(r.path)]_vars

\* witness of C20: a call saved at its own path while the cache of a call on
\* other arguments stayed, and a later call was a hit
C20_Witness ==
    /\ ret[1].kind = "return" /\ ret[1].via = "hit"
    /\ Cardinality(DOMAIN origin) >= 2
    /\ \E q \in DOMAIN origin : q \notin Paths(frame[1].rnew)

====
